---- MODULE Spec2Model ----
(***************************************************************************)
(* provider-slicervm: the VM controller's connector and external client   *)
(* (internal/controller/vm/vm.go) over the VM managed resource             *)
(* (apis/vm/v1alpha1/vm_types.go).                                         *)
(*                                                                         *)
(* The Slicer SDK and the remote API are not part of the repository: each  *)
(* SDK call is answered by the environment (any node list, any created     *)
(* node, success or failure).  Every remote call an operation issues is    *)
(* logged in out.calls, in order.  The managed resource handed to the      *)
(* client is always a VM (the reconciler is registered for VM only), so    *)
(* the errNotVM branches are not taken.                                    *)
(***************************************************************************)
EXTENDS Integers, Sequences, FiniteSets, TLC

VARIABLES
    cr,     \* the VM managed resource (metadata, spec.forProvider, status)
    pc,     \* the provider configuration object the resource refers to
    e,      \* the external client produced by the last successful Connect
    out     \* the last call or event and what it returned

vars == <<cr, pc, e, out>>

----------------------------------------------------------------------------
(* Bounds of the model *)

MaxNodes == 2       \* longest node list a host group returns

----------------------------------------------------------------------------
(* Input domains *)

\* The hostnames the remote API hands out.
Hostnames == { "api-1", "api-2" }

\* The address and creation time a node comes with.
Leases ==
    { [IP |-> "192.168.137.2", CreatedAt |-> 0],
      [IP |-> "192.168.137.3", CreatedAt |-> 86400] }

Nodes ==
    { [Hostname |-> h, IP |-> l.IP, CreatedAt |-> l.CreatedAt] :
        h \in Hostnames, l \in Leases }

NodeLists == UNION { [1..n -> Nodes] : n \in 0..MaxNodes }

ResourceHostGroups == { "", "custom" }

\* The two provider configuration objects a resource may refer to.
ProviderConfigs ==
    { [Kind |-> "ProviderConfig", URL |-> "", HostGroup |-> ""],
      [Kind |-> "ClusterProviderConfig", URL |-> "http://slicer:8080",
       HostGroup |-> "prod"] }

RefKinds == { "ProviderConfig", "ClusterProviderConfig", "Secret" }

NoExtras == [Userdata |-> "", SSHKeys |-> <<>>, ImportUser |-> "", Tags |-> <<>>]

SomeExtras ==
    [Userdata |-> "#cloud-config", SSHKeys |-> <<"ssh-ed25519 AAAA">>,
     ImportUser |-> "octocat", Tags |-> <<"dev">>]

\* The parameters a user applies.  The optional text and list fields are
\* given together, by the users who also give a CPU count.
Parameters ==
    { LET x == IF c = 0 THEN NoExtras ELSE SomeExtras IN
      [HostGroup |-> hg, CPUs |-> c, RAMGB |-> r, Userdata |-> x.Userdata,
       SSHKeys |-> x.SSHKeys, ImportUser |-> x.ImportUser, Tags |-> x.Tags] :
        hg \in ResourceHostGroups, c \in {0, 3}, r \in {0, 8} }

----------------------------------------------------------------------------
(* Values *)

NoClient == [client |-> [URL |-> "", Token |-> "", UserAgent |-> ""],
             hostGroup |-> ""]

NoNode == [Hostname |-> "", IP |-> "", CreatedAt |-> 0]

NoRequest == [RamGB |-> 0, CPUs |-> 0, Userdata |-> "", SSHKeys |-> <<>>,
              ImportUser |-> "", Tags |-> <<>>]

VMObservation == [Hostname |-> "", IP |-> "", State |-> "", CreatedAt |-> ""]

\* time.Time.String() of a creation time within the first days of the epoch
TimeString(t) ==
    "1970-01-0" \o ToString((t \div 86400) + 1) \o " 00:00:00 +0000 UTC"

\* []byte(s)
Bytes(s) == [bytes |-> s]

Wrap(err, msg) == msg \o ": " \o err

\* What a call returned (err, exists, upToDate, conn), the remote calls it
\* issued (calls), whether its remote call failed (failed), the node list the
\* remote had for a list call (remote) and its answer to a create call (resp).
Result(op) ==
    [op |-> op, err |-> "", exists |-> FALSE, upToDate |-> FALSE,
     conn |-> {}, calls |-> <<>>, failed |-> FALSE, remote |-> <<>>,
     resp |-> NoNode]

\* The result of a call whose remote call failed with err: the wrapped error.
Failed(r, err, msg) == [r EXCEPT !.failed = TRUE, !.err = Wrap(err, msg)]

Call(api, hostGroup, hostname, req) ==
    [api |-> api, hostGroup |-> hostGroup, hostname |-> hostname, req |-> req]

----------------------------------------------------------------------------
(* connector.Connect *)

\* The defaults applied to the fetched provider configuration.
SlicerConfig(spec, token) ==
    [URL |-> IF spec.URL = "" THEN "http://127.0.0.1:8080" ELSE spec.URL,
     Token |-> token,
     HostGroup |-> IF spec.HostGroup = "" THEN "api" ELSE spec.HostGroup]

\* The result of Connect: the new client (NoClient on failure) and the error.
ConnectVM(c, spec, trackErr, getErr, credErr) ==
    IF trackErr
    THEN [e |-> NoClient, err |-> Wrap("track", "cannot track ProviderConfig usage")]
    ELSE IF c.providerConfigRef.Kind = "ProviderConfig" /\ getErr
    THEN [e |-> NoClient, err |-> Wrap("get", "cannot get ProviderConfig")]
    ELSE IF c.providerConfigRef.Kind = "ClusterProviderConfig" /\ getErr
    THEN [e |-> NoClient, err |-> Wrap("get", "cannot get ClusterProviderConfig")]
    ELSE IF c.providerConfigRef.Kind \notin {"ProviderConfig", "ClusterProviderConfig"}
    THEN [e |-> NoClient,
          err |-> "unsupported provider config kind: " \o c.providerConfigRef.Kind]
    ELSE IF credErr
    THEN [e |-> NoClient, err |-> Wrap("creds", "cannot get credentials")]
    ELSE LET cfg == SlicerConfig(spec, "token") IN
         [e |-> [client |-> [URL |-> cfg.URL, Token |-> cfg.Token,
                             UserAgent |-> "provider-slicervm/1.0"],
                 hostGroup |-> cfg.HostGroup],
          err |-> ""]

Connect ==
    \E trackErr \in BOOLEAN, getErr \in BOOLEAN, credErr \in BOOLEAN :
        LET r == ConnectVM(cr, pc, trackErr, getErr, credErr) IN
        /\ e' = IF r.err = "" THEN r.e ELSE e
        /\ out' = [Result("Connect") EXCEPT !.err = r.err]
        /\ UNCHANGED <<cr, pc>>

----------------------------------------------------------------------------
(* external.Observe *)

ObserveHostGroup(c, ext) ==
    IF c.forProvider.HostGroup = "" THEN ext.hostGroup ELSE c.forProvider.HostGroup

\* The loop without its break: the last matching node wins.
FindNode_NoBreak(nodes, externalName, i) ==
    LET matches == { j \in i..Len(nodes) : nodes[j].Hostname = externalName } IN
    IF matches = {} THEN 0
    ELSE CHOOSE j \in matches : \A k \in matches : k <= j

\* The loop over the listed nodes: the index of the first node with the
\* external name as its hostname, scanning from index i; 0 when there is none.
RECURSIVE FindNode(_, _, _)
FindNode(nodes, externalName, i) ==
    IF i > Len(nodes) THEN 0
    ELSE IF nodes[i].Hostname = externalName THEN i
    ELSE FindNode(nodes, externalName, i + 1)

\* Observe that lists the host group before it looks at the external name.
ObserveVM_ListsFirst(c, ext, nodes, listErr) ==
    LET r == [Result("Observe") EXCEPT !.remote = nodes]
        called == [r EXCEPT !.calls =
                      <<Call("GetHostGroupNodes", ObserveHostGroup(c, ext), "", NoRequest)>>]
        found == FindNode(nodes, c.externalName, 1)
    IN
    IF c.deleted THEN [cr |-> c, out |-> r]
    ELSE IF listErr
    THEN [cr |-> c, out |-> Failed(called, "list", "cannot list VMs")]
    ELSE IF c.externalName = "" \/ found = 0 THEN [cr |-> c, out |-> called]
    ELSE [cr |-> [c EXCEPT !.atProvider =
                      [Hostname |-> nodes[found].Hostname,
                       IP |-> nodes[found].IP,
                       CreatedAt |-> TimeString(nodes[found].CreatedAt),
                       State |-> "running"],
                    !.ready = "Available"],
          out |-> [called EXCEPT !.exists = TRUE, !.upToDate = TRUE]]

\* Observe that does not look at the deletion timestamp.
ObserveVM_IgnoresDeletion(c, ext, nodes, listErr) ==
    LET r == [Result("Observe") EXCEPT !.remote = nodes]
        called == [r EXCEPT !.calls =
                      <<Call("GetHostGroupNodes", ObserveHostGroup(c, ext), "", NoRequest)>>]
        found == FindNode(nodes, c.externalName, 1)
    IN
    IF c.externalName = "" THEN [cr |-> c, out |-> r]
    ELSE IF listErr
    THEN [cr |-> c, out |-> Failed(called, "list", "cannot list VMs")]
    ELSE IF found = 0 THEN [cr |-> c, out |-> called]
    ELSE [cr |-> [c EXCEPT !.atProvider =
                      [Hostname |-> nodes[found].Hostname,
                       IP |-> nodes[found].IP,
                       CreatedAt |-> TimeString(nodes[found].CreatedAt),
                       State |-> "running"],
                    !.ready = "Available"],
          out |-> [called EXCEPT !.exists = TRUE, !.upToDate = TRUE]]

\* (nodes, listErr) is the remote's answer to a list call for the host group.
ObserveVM(c, ext, nodes, listErr) ==
    LET r == [Result("Observe") EXCEPT !.remote = nodes] IN
    IF c.deleted THEN [cr |-> c, out |-> r]
    ELSE IF c.externalName = "" THEN [cr |-> c, out |-> r]
    ELSE
      LET hostGroup == ObserveHostGroup(c, ext)
          called == [r EXCEPT !.calls =
                        <<Call("GetHostGroupNodes", hostGroup, "", NoRequest)>>]
          found == FindNode(nodes, c.externalName, 1)
      IN
      IF listErr
      THEN [cr |-> c, out |-> Failed(called, "list", "cannot list VMs")]
      ELSE IF found = 0 THEN [cr |-> c, out |-> called]
      ELSE [cr |-> [c EXCEPT !.atProvider =
                        [Hostname |-> nodes[found].Hostname,
                         IP |-> nodes[found].IP,
                         CreatedAt |-> TimeString(nodes[found].CreatedAt),
                         State |-> "running"],
                      !.ready = "Available"],
            out |-> [called EXCEPT !.exists = TRUE, !.upToDate = TRUE]]

Observe ==
    /\ e # NoClient
    /\ \E listErr \in BOOLEAN :
       \E nodes \in (IF listErr THEN {<<>>} ELSE NodeLists) :
        LET r == ObserveVM(cr, e, nodes, listErr) IN
        /\ cr' = r.cr
        /\ out' = r.out
    /\ UNCHANGED <<pc, e>>

----------------------------------------------------------------------------
(* external.Create *)

CreateHostGroup(c, ext) ==
    IF c.forProvider.HostGroup = "" THEN ext.hostGroup ELSE c.forProvider.HostGroup

CreateRamGB(p) == IF p.RAMGB = 0 THEN 4 ELSE p.RAMGB

\* The CPU default applied when the RAM field is zero.
CreateCPUs_TestsRAM(p) == IF p.RAMGB = 0 THEN 2 ELSE p.CPUs

CreateCPUs(p) == IF p.CPUs = 0 THEN 2 ELSE p.CPUs

CreateRequest(p) ==
    [RamGB |-> CreateRamGB(p),
     CPUs |-> CreateCPUs(p),
     Userdata |-> p.Userdata,
     SSHKeys |-> IF Len(p.SSHKeys) > 0 THEN p.SSHKeys ELSE <<>>,
     ImportUser |-> IF p.ImportUser # "" THEN p.ImportUser ELSE "",
     Tags |-> IF Len(p.Tags) > 0 THEN p.Tags ELSE <<>>]

\* Create that keeps an external name the resource already has.
CreateVM_KeepsName(c, ext, resp, createErr) ==
    LET creating == [c EXCEPT !.ready = "Creating"]
        called == [Result("Create") EXCEPT !.calls =
                      <<Call("CreateNode", CreateHostGroup(c, ext), "",
                             CreateRequest(c.forProvider))>>]
    IN
    IF createErr
    THEN [cr |-> creating,
          out |-> Failed(called, "create", "cannot create VM")]
    ELSE [cr |-> [creating EXCEPT !.externalName =
                                      IF c.externalName = "" THEN resp.Hostname
                                      ELSE c.externalName,
                                  !.atProvider.Hostname = resp.Hostname,
                                  !.atProvider.IP = resp.IP,
                                  !.atProvider.CreatedAt = TimeString(resp.CreatedAt)],
          out |-> [called EXCEPT !.resp = resp,
                                 !.conn = { <<"hostname", Bytes(resp.Hostname)>>,
                                            <<"ip", Bytes(resp.IP)>> }]]

\* Create that writes the response into the resource before it tests the error;
\* a failed call answers with the zero response.
CreateVM_WritesBeforeCheck(c, ext, resp, createErr) ==
    LET creating == [c EXCEPT !.ready = "Creating"]
        called == [Result("Create") EXCEPT !.calls =
                      <<Call("CreateNode", CreateHostGroup(c, ext), "",
                             CreateRequest(c.forProvider))>>]
        got == IF createErr THEN NoNode ELSE resp
        written == [creating EXCEPT !.externalName = got.Hostname,
                                    !.atProvider.Hostname = got.Hostname,
                                    !.atProvider.IP = got.IP,
                                    !.atProvider.CreatedAt = TimeString(got.CreatedAt)]
    IN
    IF createErr
    THEN [cr |-> written,
          out |-> Failed(called, "create", "cannot create VM")]
    ELSE [cr |-> written,
          out |-> [called EXCEPT !.resp = resp,
                                 !.conn = { <<"hostname", Bytes(resp.Hostname)>>,
                                            <<"ip", Bytes(resp.IP)>> }]]

\* resp is the node the remote answers with; createErr is whether the create
\* call fails.
CreateVM(c, ext, resp, createErr) ==
    LET creating == [c EXCEPT !.ready = "Creating"]
        hostGroup == CreateHostGroup(c, ext)
        called == [Result("Create") EXCEPT !.calls =
                      <<Call("CreateNode", hostGroup, "", CreateRequest(c.forProvider))>>]
    IN
    IF createErr
    THEN [cr |-> creating,
          out |-> Failed(called, "create", "cannot create VM")]
    ELSE [cr |-> [creating EXCEPT !.externalName = resp.Hostname,
                                  !.atProvider.Hostname = resp.Hostname,
                                  !.atProvider.IP = resp.IP,
                                  !.atProvider.CreatedAt = TimeString(resp.CreatedAt)],
          out |-> [called EXCEPT !.resp = resp,
                                 !.conn = { <<"hostname", Bytes(resp.Hostname)>>,
                                            <<"ip", Bytes(resp.IP)>> }]]

Create ==
    /\ e # NoClient
    /\ \E resp \in Nodes, createErr \in BOOLEAN :
        LET r == CreateVM(cr, e, resp, createErr) IN
        /\ cr' = r.cr
        /\ out' = r.out
    /\ UNCHANGED <<pc, e>>

----------------------------------------------------------------------------
(* external.Update *)

\* Update that marks the resource as being created again.
UpdateVM_SetsCondition(c, ext) ==
    [cr |-> [c EXCEPT !.ready = "Creating"], out |-> Result("Update")]

UpdateVM(c, ext) == [cr |-> c, out |-> Result("Update")]

Update ==
    /\ e # NoClient
    /\ LET r == UpdateVM(cr, e) IN
        /\ cr' = r.cr
        /\ out' = r.out
    /\ UNCHANGED <<pc, e>>

----------------------------------------------------------------------------
(* external.Delete *)

\* Delete in the provider's host group, whatever the resource says.
DeleteHostGroup_ProviderOnly(c, ext) == ext.hostGroup

DeleteHostGroup(c, ext) ==
    IF c.forProvider.HostGroup = "" THEN ext.hostGroup ELSE c.forProvider.HostGroup

\* Delete that forgets the external name once the remote delete succeeded.
DeleteVM_ClearsName(c, ext, deleteErr) ==
    LET deleting == [c EXCEPT !.ready = "Deleting"]
        called == [Result("Delete") EXCEPT !.calls =
                      <<Call("DeleteVM", DeleteHostGroup(c, ext), c.externalName,
                             NoRequest)>>]
    IN
    IF c.externalName = "" THEN [cr |-> deleting, out |-> Result("Delete")]
    ELSE IF deleteErr
    THEN [cr |-> deleting,
          out |-> Failed(called, "delete", "cannot delete VM")]
    ELSE [cr |-> [deleting EXCEPT !.externalName = ""], out |-> called]

\* Delete that issues the request without looking at the external name.
DeleteVM_AlwaysCalls(c, ext, deleteErr) ==
    LET deleting == [c EXCEPT !.ready = "Deleting"]
        called == [Result("Delete") EXCEPT !.calls =
                      <<Call("DeleteVM", DeleteHostGroup(c, ext), c.externalName,
                             NoRequest)>>]
    IN
    IF deleteErr
    THEN [cr |-> deleting,
          out |-> Failed(called, "delete", "cannot delete VM")]
    ELSE [cr |-> deleting, out |-> called]

DeleteVM(c, ext, deleteErr) ==
    LET deleting == [c EXCEPT !.ready = "Deleting"] IN
    IF c.externalName = "" THEN [cr |-> deleting, out |-> Result("Delete")]
    ELSE
      LET hostGroup == DeleteHostGroup(c, ext)
          called == [Result("Delete") EXCEPT !.calls =
                        <<Call("DeleteVM", hostGroup, c.externalName, NoRequest)>>]
      IN
      IF deleteErr
      THEN [cr |-> deleting,
            out |-> Failed(called, "delete", "cannot delete VM")]
      ELSE [cr |-> deleting, out |-> called]

Delete ==
    /\ e # NoClient
    /\ \E deleteErr \in BOOLEAN :
        LET r == DeleteVM(cr, e, deleteErr) IN
        /\ cr' = r.cr
        /\ out' = r.out
    /\ UNCHANGED <<pc, e>>

----------------------------------------------------------------------------
(* The user's edits of the resource, between calls *)

SetHostGroup ==
    /\ \E hg \in ResourceHostGroups :
        /\ hg # cr.forProvider.HostGroup
        /\ cr' = [cr EXCEPT !.forProvider.HostGroup = hg]
    /\ out' = Result("SetHostGroup")
    /\ UNCHANGED <<pc, e>>

MarkDeleted ==
    /\ ~cr.deleted
    /\ cr' = [cr EXCEPT !.deleted = TRUE]
    /\ out' = Result("MarkDeleted")
    /\ UNCHANGED <<pc, e>>

----------------------------------------------------------------------------
(* The specification *)

VM(kind, p) ==
    [externalName |-> "", deleted |-> FALSE,
     providerConfigRef |-> [Kind |-> kind],
     forProvider |-> p,
     atProvider |-> VMObservation,
     ready |-> ""]

Init ==
    /\ cr \in { VM(kind, p) : kind \in RefKinds, p \in Parameters }
    /\ pc \in ProviderConfigs
    /\ cr.providerConfigRef.Kind \in {"ProviderConfig", "ClusterProviderConfig"}
            => pc.Kind = cr.providerConfigRef.Kind
    /\ cr.providerConfigRef.Kind = "Secret" => pc.Kind = "ProviderConfig"
    /\ e = NoClient
    /\ out = Result("")

Next ==
    \/ Connect
    \/ Observe
    \/ Create
    \/ Update
    \/ Delete
    \/ SetHostGroup
    \/ MarkDeleted

Spec == Init /\ [][Next]_vars

----------------------------------------------------------------------------
(* Properties *)

\* The host group the documentation promises: resource, then provider
\* configuration, then "api".
ResolvedHostGroup ==
    IF cr.forProvider.HostGroup # "" THEN cr.forProvider.HostGroup
    ELSE IF pc.HostGroup # "" THEN pc.HostGroup
    ELSE "api"

\* The positions of the returned list whose node carries the external name.
Matches == { i \in 1..Len(out.remote) : out.remote[i].Hostname = cr.externalName }

FirstMatch == CHOOSE i \in Matches : \A j \in Matches : i <= j

\* C1 as stated: once the external name is a non-empty hostname, no later
\* operation changes it to a different value.
C1_Immutable ==
    [][cr.externalName # "" => cr'.externalName = cr.externalName]_vars

\* C1, amended: the external name changes only in a successful Create, which
\* sets it to the hostname of its response; Observe, Update, Delete, a failing
\* Create and the user's edits leave it as it is.
C1_OnlyCreateRebinds ==
    [][cr'.externalName # cr.externalName
          => /\ out'.op = "Create"
             /\ out'.err = ""
             /\ cr'.externalName = out'.resp.Hostname]_vars

C1_Witness ==
    /\ cr.externalName \in Hostnames
    /\ out.op = "Delete"
    /\ out.err = ""
    /\ Len(out.calls) = 1

\* C2: for a VM not marked for deletion, with an external name, whose list
\* call succeeds, Observe lists the resolved host group and reports existence
\* exactly when some returned node has the external name as hostname; the
\* observed hostname, IP and creation time are those of the first such node.
C2_ObserveFindsFirstMatch ==
    (out.op = "Observe" /\ ~cr.deleted /\ cr.externalName # "" /\ ~out.failed)
        => /\ out.err = ""
           /\ Len(out.calls) = 1
           /\ out.calls[1].api = "GetHostGroupNodes"
           /\ out.calls[1].hostGroup = ResolvedHostGroup
           /\ out.exists <=> (Matches # {})
           /\ Matches # {}
                => /\ cr.atProvider.Hostname = out.remote[FirstMatch].Hostname
                   /\ cr.atProvider.IP = out.remote[FirstMatch].IP
                   /\ cr.atProvider.CreatedAt
                          = TimeString(out.remote[FirstMatch].CreatedAt)

C2_Witness ==
    /\ out.op = "Observe"
    /\ ~cr.deleted
    /\ out.exists
    /\ Cardinality(Matches) = 2
    /\ out.remote[1].IP # out.remote[2].IP
    /\ cr.atProvider.IP = out.remote[1].IP

\* C3: Observe of a VM with an empty external name reports non-existence and
\* no error, issues no remote call and leaves observation and condition alone,
\* whatever the remote holds.
C3_ObserveWithoutName ==
    [][(out'.op = "Observe" /\ cr.externalName = "")
          => /\ ~out'.exists
             /\ out'.err = ""
             /\ out'.calls = <<>>
             /\ cr'.atProvider = cr.atProvider
             /\ cr'.ready = cr.ready]_vars

C3_Witness ==
    /\ out.op = "Observe"
    /\ cr.externalName = ""
    /\ ~cr.deleted
    /\ Len(out.remote) > 0
    /\ cr.ready = "Creating"
    /\ ~out.exists

\* C4: Observe of a VM marked for deletion reports non-existence and no error
\* and issues no remote call, even when the remote holds a node with the
\* external name.
C4_ObserveDeleted ==
    (out.op = "Observe" /\ cr.deleted)
        => /\ ~out.exists
           /\ out.err = ""
           /\ out.calls = <<>>

C4_Witness ==
    /\ out.op = "Observe"
    /\ cr.deleted
    /\ cr.externalName # ""
    /\ Matches # {}
    /\ ~out.exists

\* C5: a successful Create sets the external name and the observed hostname,
\* IP and creation time from the response and returns exactly the connection
\* details hostname and ip, with the response's values.
C5_CreateSuccess ==
    (out.op = "Create" /\ ~out.failed)
        => /\ out.err = ""
           /\ Len(out.calls) = 1
           /\ cr.externalName = out.resp.Hostname
           /\ cr.atProvider.Hostname = out.resp.Hostname
           /\ cr.atProvider.IP = out.resp.IP
           /\ cr.atProvider.CreatedAt = TimeString(out.resp.CreatedAt)
           /\ out.conn = { <<"hostname", Bytes(out.resp.Hostname)>>,
                           <<"ip", Bytes(out.resp.IP)>> }

C5_Witness ==
    /\ out.op = "Create"
    /\ out.err = ""
    /\ out.resp.Hostname \in Hostnames
    /\ cr.atProvider.State = "running"
    /\ cr.atProvider.Hostname = out.resp.Hostname

\* C6: the create request carries CPUs = 2 when the parameter is 0 and the
\* parameter otherwise, RamGB = 4 when the parameter is 0 and the parameter
\* otherwise, each default applied independently of the other field.
C6_CreateDefaults ==
    out.op = "Create"
        => /\ Len(out.calls) = 1
           /\ out.calls[1].api = "CreateNode"
           /\ out.calls[1].req.CPUs
                  = (IF cr.forProvider.CPUs = 0 THEN 2 ELSE cr.forProvider.CPUs)
           /\ out.calls[1].req.RamGB
                  = (IF cr.forProvider.RAMGB = 0 THEN 4 ELSE cr.forProvider.RAMGB)

C6_Witness ==
    /\ out.op = "Create"
    /\ cr.forProvider.CPUs = 0
    /\ cr.forProvider.RAMGB = 8
    /\ out.calls[1].req.CPUs = 2
    /\ out.calls[1].req.RamGB = 8

\* C7: every remote call of Observe, Create and Delete goes to the resource's
\* host group when it is set, else to the provider configuration's when that
\* is set, else to "api".
C7_HostGroupResolution ==
    \A i \in 1..Len(out.calls) :
        /\ out.op \in {"Observe", "Create", "Delete"}
        /\ out.calls[i].hostGroup = ResolvedHostGroup

C7_Witness ==
    /\ out.op = "Delete"
    /\ Len(out.calls) = 1
    /\ cr.forProvider.HostGroup = "custom"
    /\ pc.HostGroup = "prod"
    /\ out.calls[1].hostGroup = "custom"

\* C8: Delete of a VM without an external name issues no remote call and
\* succeeds; Delete of a VM with one issues exactly one delete request, for the
\* resolved host group and the external name.
C8_DeleteCalls ==
    out.op = "Delete"
        => IF cr.externalName = ""
           THEN out.calls = <<>> /\ out.err = ""
           ELSE out.calls = <<Call("DeleteVM", ResolvedHostGroup, cr.externalName,
                                   NoRequest)>>

C8_Witness ==
    /\ out.op = "Delete"
    /\ cr.externalName = ""
    /\ out.calls = <<>>
    /\ cr.ready = "Deleting"

\* C9: Update returns no error, issues no remote call and leaves the managed
\* resource as it was.
C9_UpdateNoOp ==
    [][out'.op = "Update"
          => /\ out'.err = ""
             /\ out'.calls = <<>>
             /\ cr' = cr]_vars

C9_Witness ==
    /\ out.op = "Update"
    /\ cr.externalName # ""
    /\ cr.ready = "Available"
    /\ out.calls = <<>>

\* C10: a Create whose remote call fails returns an error and no connection
\* details and leaves the external name and the observed hostname, IP and
\* creation time as they were.
C10_CreateFailure ==
    [][(out'.op = "Create" /\ out'.failed)
          => /\ out'.err # ""
             /\ out'.conn = {}
             /\ cr'.externalName = cr.externalName
             /\ cr'.atProvider.Hostname = cr.atProvider.Hostname
             /\ cr'.atProvider.IP = cr.atProvider.IP
             /\ cr'.atProvider.CreatedAt = cr.atProvider.CreatedAt]_vars

C10_Witness ==
    /\ out.op = "Create"
    /\ out.err # ""
    /\ cr.externalName # ""
    /\ cr.ready = "Creating"
    /\ cr.atProvider.State = "running"

====
